---- MODULE Spec2Model ----
(***************************************************************************)
(* Model of src/bert-models/data_preprocessing.py: the instance builder    *)
(* (retrieve_instances_from_dataset), the span marking                      *)
(* (insert_filler_markers) and the label merger (merge_data).               *)
(*                                                                         *)
(* A Python str is a sequence of one-character strings.  A Python value    *)
(* whose type matters (the filler_markers argument and its elements, the  *)
(* items of a token list) is a record [type, items].  Python indexes from  *)
(* 0, sequences here from 1; index 0 stands for "not found".               *)
(***************************************************************************)
EXTENDS Integers, Sequences, FiniteSets, TLC

VARIABLES pc, sentence, filler, filler_markers, use_context, instances_df,
          dataset,
          row_index, filler_index, ids, instances, labels_df, label_dict,
          zip_index, merged_df_dict, result

vars == <<pc, sentence, filler, filler_markers, use_context, instances_df,
          dataset,
          row_index, filler_index, ids, instances, labels_df, label_dict,
          zip_index, merged_df_dict, result>>

-----------------------------------------------------------------------------
(* Bounds of the explored inputs. *)

\* longest sentence of a direct insert_filler_markers call, in pieces
MaxPieces == 4
\* most rows of a dataset given to the instance builder
MaxRows == 2
\* most lines of a labels file that are absent, invalid or repeated
MaxDefects == 2

-----------------------------------------------------------------------------
(* Python values. *)

NL == "\n"
TAB == "\t"

\* the characters str.split() with no argument splits on
Whitespace == {" ", NL, TAB}

\* the blank placeholder "______" (six underscores)
Blank == <<"_", "_", "_", "_", "_", "_">>

\* the "(...)" placeholder
Ellipsis == <<"(", ".", ".", ".", ")">>

PyNone == [type |-> "NoneType", items |-> <<>>]
PyStr(s) == [type |-> "str", items |-> s]
PyInt(digits) == [type |-> "int", items |-> digits]
PyTuple(xs) == [type |-> "tuple", items |-> xs]
PyList(xs) == [type |-> "list", items |-> xs]

\* bool(x) of None, a tuple or a list
Truthy(x) == x.type # "NoneType" /\ Len(x.items) > 0

\* a missing cell of a dataframe
NaN == [type |-> "float", items |-> <<"n", "a", "n">>]

\* the outcome of a call: a returned value or a raised exception
Return(v) == [kind |-> "return", exc |-> "", fmt |-> "", arg |-> <<>>, value |-> v]
Raise(e, f, a) == [kind |-> "raise", exc |-> e, fmt |-> f, arg |-> a, value |-> <<>>]
NoResult == [kind |-> "none", exc |-> "", fmt |-> "", arg |-> <<>>, value |-> <<>>]

-----------------------------------------------------------------------------
(* str and list methods. *)

RECURSIVE SplitFrom(_, _, _, _)
SplitFrom(s, i, cur, acc) ==
    IF i > Len(s)
    THEN IF cur = <<>> THEN acc ELSE Append(acc, cur)
    ELSE IF s[i] \in Whitespace
         THEN SplitFrom(s, i + 1, <<>>, IF cur = <<>> THEN acc ELSE Append(acc, cur))
         ELSE SplitFrom(s, i + 1, Append(cur, s[i]), acc)

\* s.split(): the maximal runs of non-whitespace characters
Split(s) == SplitFrom(s, 1, <<>>, <<>>)

RECURSIVE Join(_, _)
\* sep.join(strs)
Join(sep, strs) ==
    IF strs = <<>> THEN <<>>
    ELSE IF Len(strs) = 1 THEN strs[1]
    ELSE strs[1] \o sep \o Join(sep, Tail(strs))

\* old occurs in s at position i
OccursAt(s, i, old) ==
    /\ i + Len(old) - 1 <= Len(s)
    /\ \A j \in 1..Len(old) : s[i + j - 1] = old[j]

RECURSIVE ReplaceFrom(_, _, _, _)
ReplaceFrom(s, i, old, new) ==
    IF i > Len(s) THEN <<>>
    ELSE IF OccursAt(s, i, old)
         THEN new \o ReplaceFrom(s, i + Len(old), old, new)
         ELSE <<s[i]>> \o ReplaceFrom(s, i + 1, old, new)

\* s.replace(old, new) for a non-empty old: leftmost non-overlapping occurrences
Replace(s, old, new) == ReplaceFrom(s, 1, old, new)

\* old in s
Contains(s, old) == \E i \in 1..Len(s) : OccursAt(s, i, old)

\* list.index(x): the first position of x, 0 when list.index raises ValueError
ListIndex(list, x) ==
    IF \E i \in 1..Len(list) : list[i] = x
    THEN CHOOSE i \in 1..Len(list) :
            /\ list[i] = x
            /\ \A j \in 1..(i - 1) : list[j] # x
    ELSE 0

\* list.insert(i, x) with i the position x ends up at
ListInsert(list, i, x) ==
    SubSeq(list, 1, i - 1) \o <<x>> \o SubSeq(list, i, Len(list))

\* str(n) for the filler indices 1..5
IntStr(n) == <<<<"1">>, <<"2">>, <<"3">>, <<"4">>, <<"5">>>>[n]

-----------------------------------------------------------------------------
(* insert_filler_markers *)

MissingBlankFmt == "Sentence {sentence} does not contain blank."
InvalidMarkersFmt ==
    "Special tokens {filler_markers} not valid. Must be a tuple of two strs: (start marker, end marker)."
NotInListFmt == "{x} is not in list"
JoinTypeFmt == "sequence item {i}: expected str instance, {type} found"

\* " ".join(tokens) over a list of typed items: TypeError on a non-str item
JoinTokens(tokens) ==
    IF \E i \in 1..Len(tokens) : tokens[i].type # "str"
    THEN Raise("TypeError", JoinTypeFmt, <<>>)
    ELSE Return(Join(<<" ">>, [i \in 1..Len(tokens) |-> tokens[i].items]))

\* mutant: the filler and the start marker are inserted in the other order
SpliceMarkersSwapped(sentence_tokens, blank_index, fill, markers) ==
    LET t1 == [sentence_tokens EXCEPT ![blank_index] = markers.items[2]]
        t2 == ListInsert(t1, blank_index, markers.items[1])
        t3 == ListInsert(t2, blank_index, PyStr(fill))
    IN  JoinTokens(t3)

\* mutant: the end marker is inserted and the blank is kept
SpliceMarkersKeepBlank(sentence_tokens, blank_index, fill, markers) ==
    LET t1 == ListInsert(sentence_tokens, blank_index, markers.items[2])
        t2 == ListInsert(t1, blank_index, PyStr(fill))
        t3 == ListInsert(t2, blank_index, markers.items[1])
    IN  JoinTokens(t3)

\* lines 86-90: overwrite the blank with the end marker, insert the filler and
\* then the start marker at the blank's position, join
SpliceMarkers(sentence_tokens, blank_index, fill, markers) ==
    LET t1 == [sentence_tokens EXCEPT ![blank_index] = markers.items[2]]
        t2 == ListInsert(t1, blank_index, PyStr(fill))
        t3 == ListInsert(t2, blank_index, markers.items[1])
    IN  JoinTokens(t3)

\* lines 78-90: the body of the try block
TryBody(sent, fill, markers) ==
    LET split_tokens == Split(sent)
        sentence_tokens == [i \in 1..Len(split_tokens) |-> PyStr(split_tokens[i])]
        blank_index == ListIndex(split_tokens, Blank)
    IN  IF blank_index = 0
        THEN Raise("ValueError", NotInListFmt, Blank)
        ELSE IF markers.type # "tuple" \/ Len(markers.items) # 2
             THEN Raise("ValueError", InvalidMarkersFmt, markers)
             ELSE SpliceMarkers(sentence_tokens, blank_index, fill, markers)

\* mutant: the exception of the try block is passed on
ExceptNothing(sent, outcome) == outcome

\* lines 92-93: every ValueError of the try block is replaced
ExceptValueError(sent, outcome) ==
    IF outcome.kind = "raise" /\ outcome.exc = "ValueError"
    THEN Raise("ValueError", MissingBlankFmt, sent)
    ELSE outcome

insert_filler_markers(sent, fill, markers) ==
    ExceptValueError(sent, TryBody(sent, fill, markers))

-----------------------------------------------------------------------------
(* Inputs of a direct call of insert_filler_markers. *)

Pieces == {Blank, <<"_">>, <<" ">>, <<TAB>>, <<"a">>, <<".">>}

RECURSIVE Flatten(_)
Flatten(ps) == IF ps = <<>> THEN <<>> ELSE Head(ps) \o Flatten(Tail(ps))

\* the example of the docstring (line 72)
ExampleSentence ==
    <<"T", "h", "i", "s", " ", "i", "s", " ", "a", " ", "_", "_", "_", "_",
      "_", "_", " ", "e", "x", "a", "m", "p", "l", "e", ".">>
ExampleFiller ==
    <<"r", "e", "a", "l", "l", "y", " ", "s", "i", "m", "p", "l", "e">>
ExampleResult ==
    <<"T", "h", "i", "s", " ", "i", "s", " ", "a", " ", "[", "F", "]", " ",
      "r", "e", "a", "l", "l", "y", " ", "s", "i", "m", "p", "l", "e", " ",
      "[", "/", "F", "]", " ", "e", "x", "a", "m", "p", "l", "e", ".">>

\* every string made of at most MaxPieces pieces, and the example
Sentences ==
    {Flatten(ps) : ps \in UNION {[1..n -> Pieces] : n \in 0..MaxPieces}}
        \cup {ExampleSentence}

StartMarker == <<"[", "F", "]">>
EndMarker == <<"[", "/", "F", "]">>

\* FILLER_MARKERS of src/simple-features/main.py
FillerMarkers == PyTuple(<<PyStr(StartMarker), PyStr(EndMarker)>>)

Fillers == {<<>>, <<"x">>, <<"x", " ", "y">>, StartMarker, ExampleFiller}

MarkerArgs ==
    { FillerMarkers,
      PyTuple(<<PyStr(<<"<">>), PyStr(<<">">>)>>),
      PyList(<<PyStr(StartMarker), PyStr(EndMarker)>>),
      PyTuple(<<PyStr(StartMarker)>>),
      PyTuple(<<PyStr(StartMarker), PyStr(EndMarker), PyStr(EndMarker)>>),
      PyTuple(<<PyInt(<<"1">>), PyInt(<<"2">>)>>),
      PyTuple(<<>>),
      PyNone }

\* the variables of the instance builder and of the merger, before they run
BuilderIdle ==
    /\ dataset = <<>>
    /\ row_index = 0
    /\ filler_index = 0
    /\ ids = <<>>
    /\ instances = <<>>

MergerIdle ==
    /\ labels_df = <<>>
    /\ label_dict = <<>>
    /\ zip_index = 0
    /\ merged_df_dict = [ids |-> <<>>, text |-> <<>>, label |-> <<>>]

InitInsert ==
    /\ pc = "call_insert"
    /\ sentence \in Sentences
    /\ filler \in Fillers
    /\ filler_markers \in MarkerArgs
    /\ use_context = FALSE
    /\ instances_df = <<>>
    /\ BuilderIdle
    /\ MergerIdle
    /\ result = NoResult

\* a call insert_filler_markers(sentence, filler, filler_markers)
CallInsertFillerMarkers ==
    /\ pc = "call_insert"
    /\ result' = insert_filler_markers(sentence, filler, filler_markers)
    /\ pc' = "inserted"
    /\ UNCHANGED <<sentence, filler, filler_markers, use_context, instances_df,
                   dataset,
                   row_index, filler_index, ids, instances, labels_df,
                   label_dict, zip_index, merged_df_dict>>

NextInsert == CallInsertFillerMarkers

SpecInsert == InitInsert /\ [][NextInsert]_vars

-----------------------------------------------------------------------------
(* retrieve_instances_from_dataset *)

\* dataset.fillna(""): every missing cell becomes the empty string
FillCell(cell) == IF cell.type = "float" THEN PyStr(<<>>) ELSE cell

fillna(df) ==
    [i \in 1..Len(df) |->
        [Id |-> FillCell(df[i].Id),
         Sentence |-> FillCell(df[i].Sentence),
         Filler |-> [k \in 1..5 |-> FillCell(df[i].Filler[k])],
         Article_title |-> FillCell(df[i].Article_title),
         Section_header |-> FillCell(df[i].Section_header),
         Previous_context |-> FillCell(df[i].Previous_context),
         Follow_up_context |-> FillCell(df[i].Follow_up_context)]]

\* mutant: the filler indices are counted down
InstanceIdReversed(row, k) == row.Id.items \o <<"_">> \o IntStr(6 - k)

\* line 25: f"{row['Id']}_{filler_index}"
InstanceId(row, k) == row.Id.items \o <<"_">> \o IntStr(k)

\* mutant: span marking for every filler_markers other than None
SentWithFillerNotNone(row, k, markers) ==
    IF markers.type # "NoneType"
    THEN insert_filler_markers(row.Sentence.items, row.Filler[k].items, markers)
    ELSE Return(Replace(row.Sentence.items, Blank, row.Filler[k].items))

\* lines 27-36: span marking when filler_markers is truthy, else str.replace
SentWithFiller(row, k, markers) ==
    IF Truthy(markers)
    THEN insert_filler_markers(row.Sentence.items, row.Filler[k].items, markers)
    ELSE Return(Replace(row.Sentence.items, Blank, row.Filler[k].items))

\* lines 47 and 55: context.replace("(...)", "") is evaluated and its value
\* dropped; context itself is what is appended
StripPlaceholder(context) ==
    LET replaced == Replace(context, Ellipsis, <<>>)
    IN  context

\* mutant: the follow-up context is appended whether or not it is empty
ContextAlwaysFollowUp(row, sent_with_filler) ==
    StripPlaceholder(row.Article_title.items \o <<" ", NL, " ">>
                         \o row.Section_header.items \o <<" ", NL>>
                         \o row.Previous_context.items \o <<" ", NL>>
                         \o sent_with_filler
                         \o <<" ", NL>> \o row.Follow_up_context.items)

\* lines 39-55: "{0} \n {1} \n{2} \n{3} \n{4}" or "{0} \n {1} \n{2} \n{3}"
Context(row, sent_with_filler) ==
    LET head == row.Article_title.items \o <<" ", NL, " ">>
                    \o row.Section_header.items \o <<" ", NL>>
                    \o row.Previous_context.items \o <<" ", NL>>
                    \o sent_with_filler
    IN  IF row.Follow_up_context.items # <<>>
        THEN StripPlaceholder(head \o <<" ", NL>> \o row.Follow_up_context.items)
        ELSE StripPlaceholder(head)

\* lines 38-59: the text appended to instances
InstanceText(row, sent_with_filler, ctx) ==
    IF ctx THEN Context(row, sent_with_filler) ELSE sent_with_filler

\* lines 18-21: the local name dataset is bound to the filled copy; the
\* caller's table (instances_df in merge_data) is left as it was
FillNa ==
    /\ pc = "retrieve"
    /\ dataset' = fillna(instances_df)
    /\ ids' = <<>>
    /\ instances' = <<>>
    /\ row_index' = 1
    /\ filler_index' = 1
    /\ pc' = "loop"
    /\ UNCHANGED <<sentence, filler, filler_markers, use_context, instances_df,
                   labels_df, label_dict, zip_index, merged_df_dict, result>>

\* lines 23-59: one pass of the inner loop; an exception of
\* insert_filler_markers leaves the function (and its callers)
LoopBody ==
    /\ pc = "loop"
    /\ row_index <= Len(dataset)
    /\ LET row == dataset[row_index]
           outcome == SentWithFiller(row, filler_index, filler_markers)
       IN  /\ ids' = Append(ids, InstanceId(row, filler_index))
           /\ IF outcome.kind = "raise"
              THEN /\ pc' = "raised"
                   /\ result' = outcome
                   /\ UNCHANGED <<instances, row_index, filler_index>>
              ELSE /\ instances' =
                          Append(instances, InstanceText(row, outcome.value, use_context))
                   /\ IF filler_index < 5
                      THEN filler_index' = filler_index + 1 /\ row_index' = row_index
                      ELSE filler_index' = 1 /\ row_index' = row_index + 1
                   /\ UNCHANGED <<pc, result>>
    /\ UNCHANGED <<sentence, filler, filler_markers, use_context, instances_df,
                   dataset,
                   labels_df, label_dict, zip_index, merged_df_dict>>

\* line 61, for a direct call
RetrieveReturn ==
    /\ pc = "loop"
    /\ row_index > Len(dataset)
    /\ result' = Return(<<ids, instances>>)
    /\ pc' = "retrieved"
    /\ UNCHANGED <<sentence, filler, filler_markers, use_context, instances_df,
                   dataset,
                   row_index, filler_index, ids, instances, labels_df,
                   label_dict, zip_index, merged_df_dict>>

-----------------------------------------------------------------------------
(* Inputs of the instance builder. *)

Cell(s) == PyStr(s)

\* a blank that stands alone, and one attached to punctuation
SentenceFree == <<"a", " ">> \o Blank \o <<" ", ".">>
SentenceAttached == <<"a", " ">> \o Blank \o <<".">>

\* five fillers: a word, a missing cell, two words, the empty string, a word
RowFillers == <<Cell(<<"v">>), NaN, Cell(<<"x", " ", "y">>), Cell(<<>>), Cell(<<"z">>)>>

\* title, section header, previous context, follow-up context
ContextProfiles ==
    { <<Cell(<<"T">>), Cell(<<"H">>), Cell(<<"P">>), NaN>>,
      <<Cell(<<"T">>), Cell(<<"H">>), Cell(Ellipsis \o <<"P">>), Cell(<<>>)>>,
      <<Cell(<<"T">>), Cell(<<"H">>), Cell(<<"P">>), Cell(<<"F">>)>>,
      <<NaN, Cell(<<"H">>), Cell(<<"P">>), Cell(<<"F">> \o Ellipsis)>> }

RowIds == {<<"7">>, <<"8">>}

MakeRow(id, sent, profile) ==
    [Id |-> Cell(id),
     Sentence |-> Cell(sent),
     Filler |-> RowFillers,
     Article_title |-> profile[1],
     Section_header |-> profile[2],
     Previous_context |-> profile[3],
     Follow_up_context |-> profile[4]]

Rows ==
    {MakeRow(id, sent, profile) :
        id \in RowIds, sent \in {SentenceFree, SentenceAttached},
        profile \in ContextProfiles}

Datasets == UNION {[1..n -> Rows] : n \in 0..MaxRows}

\* None, the markers of main.py, an empty tuple, a list of two strs
BuilderMarkerArgs ==
    {PyNone, FillerMarkers, PyTuple(<<>>),
     PyList(<<PyStr(StartMarker), PyStr(EndMarker)>>)}

InitBuild ==
    /\ pc = "retrieve"
    /\ instances_df \in Datasets
    /\ use_context \in BOOLEAN
    /\ filler_markers \in BuilderMarkerArgs
    /\ sentence = <<>>
    /\ filler = <<>>
    /\ BuilderIdle
    /\ MergerIdle
    /\ result = NoResult

NextBuild == FillNa \/ LoopBody \/ RetrieveReturn

SpecBuild == InitBuild /\ [][NextBuild]_vars

-----------------------------------------------------------------------------
(* merge_data *)

InvalidLabelFmt == "Label {label} is not a valid plausibility class."
KeyErrorFmt == "{key}"

\* line 112: {row["Id"]: row["Label"] for _, row in labels_df.iterrows()};
\* a later line of the same id overwrites an earlier one
MakeLabelDict(df) ==
    [id \in {df[i].Id : i \in 1..Len(df)} |->
        df[CHOOSE i \in 1..Len(df) :
              /\ df[i].Id = id
              /\ \A j \in (i + 1)..Len(df) : df[j].Id # id].Label]

\* mutant: an id without a label is given NEUTRAL
LookupDefault(dict, key) ==
    IF key \in DOMAIN dict THEN Return(dict[key]) ELSE Return("NEUTRAL")

\* line 122: label_dict[id_elem], a KeyError when the id is no key
Lookup(dict, key) ==
    IF key \in DOMAIN dict
    THEN Return(dict[key])
    ELSE Raise("KeyError", KeyErrorFmt, key)

\* mutant: the codes of NEUTRAL and PLAUSIBLE are exchanged
LabelCodeSwapped(label) ==
    IF label = "IMPLAUSIBLE" THEN Return(0)
    ELSE IF label = "NEUTRAL" THEN Return(2)
    ELSE IF label = "PLAUSIBLE" THEN Return(1)
    ELSE Raise("ValueError", InvalidLabelFmt, label)

\* mutant: every other label is taken as PLAUSIBLE
LabelCodeNoElse(label) ==
    IF label = "IMPLAUSIBLE" THEN Return(0)
    ELSE IF label = "NEUTRAL" THEN Return(1)
    ELSE Return(2)

\* lines 124-131
LabelCode(label) ==
    IF label = "IMPLAUSIBLE" THEN Return(0)
    ELSE IF label = "NEUTRAL" THEN Return(1)
    ELSE IF label = "PLAUSIBLE" THEN Return(2)
    ELSE Raise("ValueError", InvalidLabelFmt, label)

\* lines 108-112: the two tables are read and label_dict is built
ReadTables ==
    /\ pc = "merge_data"
    /\ merged_df_dict' = [ids |-> <<>>, text |-> <<>>, label |-> <<>>]
    /\ label_dict' = MakeLabelDict(labels_df)
    /\ pc' = "retrieve"
    /\ UNCHANGED <<sentence, filler, filler_markers, use_context, instances_df,
                   dataset, row_index, filler_index, ids, instances, labels_df,
                   zip_index, result>>

\* lines 114-116: retrieve_instances_from_dataset returns to merge_data
MergeReceive ==
    /\ pc = "loop"
    /\ row_index > Len(dataset)
    /\ zip_index' = 1
    /\ pc' = "zip"
    /\ UNCHANGED <<sentence, filler, filler_markers, use_context, instances_df,
                   dataset, row_index, filler_index, ids, instances, labels_df,
                   label_dict, merged_df_dict, result>>

\* zip(ids, instances) ends with the shorter list
ZipLen == IF Len(ids) < Len(instances) THEN Len(ids) ELSE Len(instances)

\* lines 118-131: one pass of the merge loop
MergeStep ==
    /\ pc = "zip"
    /\ zip_index <= ZipLen
    /\ LET id_elem == ids[zip_index]
           instance == instances[zip_index]
           appended == [merged_df_dict EXCEPT !.ids = Append(@, id_elem),
                                              !.text = Append(@, instance)]
           label == Lookup(label_dict, id_elem)
           code == LabelCode(label.value)
       IN  IF label.kind = "raise"
           THEN /\ merged_df_dict' = appended
                /\ result' = label
                /\ pc' = "raised"
                /\ UNCHANGED zip_index
           ELSE IF code.kind = "raise"
                THEN /\ merged_df_dict' = appended
                     /\ result' = code
                     /\ pc' = "raised"
                     /\ UNCHANGED zip_index
                ELSE /\ merged_df_dict' = [appended EXCEPT !.label = Append(@, code.value)]
                     /\ zip_index' = zip_index + 1
                     /\ UNCHANGED <<pc, result>>
    /\ UNCHANGED <<sentence, filler, filler_markers, use_context, instances_df,
                   dataset, row_index, filler_index, ids, instances, labels_df,
                   label_dict>>

\* lines 132-134: the table of the three columns is returned
MergeReturn ==
    /\ pc = "zip"
    /\ zip_index > ZipLen
    /\ result' = Return(merged_df_dict)
    /\ pc' = "merged"
    /\ UNCHANGED <<sentence, filler, filler_markers, use_context, instances_df,
                   dataset, row_index, filler_index, ids, instances, labels_df,
                   label_dict, zip_index, merged_df_dict>>

-----------------------------------------------------------------------------
(* Inputs of merge_data. *)

RowFree7 == MakeRow(<<"7">>, SentenceFree,
                    <<Cell(<<"T">>), Cell(<<"H">>), Cell(<<"P">>), Cell(<<"F">>)>>)
RowFree8 == MakeRow(<<"8">>, SentenceFree,
                    <<Cell(<<"T">>), Cell(<<"H">>), Cell(<<"P">>), NaN>>)
RowAttached8 == MakeRow(<<"8">>, SentenceAttached,
                        <<Cell(<<"T">>), Cell(<<"H">>), Cell(<<"P">>), NaN>>)

\* the instances files: no row, one row, two rows, a row whose blank is no token
MergeDatasets == {<<>>, <<RowFree7>>, <<RowFree7, RowFree8>>, <<RowAttached8>>}

\* the labels file that gives every instance of df one valid label
BaseLabel == <<"IMPLAUSIBLE", "NEUTRAL", "PLAUSIBLE", "NEUTRAL", "PLAUSIBLE">>

BaseLabels(df) ==
    [i \in 1..(5 * Len(df)) |->
        LET k == ((i - 1) \div 5) + 1
            j == ((i - 1) % 5) + 1
        IN  [Id |-> df[k].Id.items \o <<"_">> \o IntStr(j), Label |-> BaseLabel[j]]]

\* what can be wrong with a line: it is absent, its label is no class, or a
\* later line gives the same id another class
DefectKinds == {"drop", "invalid", "repeat"}

OtherLabel(label) == IF label = "PLAUSIBLE" THEN "IMPLAUSIBLE" ELSE "PLAUSIBLE"

RECURSIVE BodyLines(_, _, _)
BodyLines(base, d, i) ==
    IF i > Len(base) THEN <<>>
    ELSE (IF i \notin DOMAIN d THEN <<base[i]>>
          ELSE IF d[i] = "drop" THEN <<>>
          ELSE IF d[i] = "invalid" THEN <<[base[i] EXCEPT !.Label = "MAYBE"]>>
          ELSE <<base[i]>>)
         \o BodyLines(base, d, i + 1)

RECURSIVE RepeatLines(_, _, _)
RepeatLines(base, d, i) ==
    IF i > Len(base) THEN <<>>
    ELSE (IF i \in DOMAIN d /\ d[i] = "repeat"
          THEN <<[base[i] EXCEPT !.Label = OtherLabel(@)]>>
          ELSE <<>>)
         \o RepeatLines(base, d, i + 1)

\* the labels files for df: the base file with at most MaxDefects defects
LabelTables(df) ==
    LET base == BaseLabels(df)
        places == {S \in SUBSET (1..Len(base)) : Cardinality(S) <= MaxDefects}
    IN  {BodyLines(base, d, 1) \o RepeatLines(base, d, 1) :
            d \in UNION {[S -> DefectKinds] : S \in places}}

Init ==
    /\ pc = "merge_data"
    /\ instances_df \in MergeDatasets
    /\ labels_df \in LabelTables(instances_df)
    /\ use_context \in BOOLEAN
    /\ filler_markers \in {PyNone, FillerMarkers}
    /\ sentence = <<>>
    /\ filler = <<>>
    /\ BuilderIdle
    /\ label_dict = <<>>
    /\ zip_index = 0
    /\ merged_df_dict = [ids |-> <<>>, text |-> <<>>, label |-> <<>>]
    /\ result = NoResult

Next ==
    \/ ReadTables
    \/ FillNa
    \/ LoopBody
    \/ MergeReceive
    \/ MergeStep
    \/ MergeReturn

Spec == Init /\ [][Next]_vars

-----------------------------------------------------------------------------
(* Properties of insert_filler_markers, under SpecInsert. *)

\* the position of the first standalone blank token of s, 0 when there is none
BlankAt(s) == ListIndex(Split(s), Blank)

\* a two-element tuple of strs
ValidMarkerPair(m) ==
    /\ m.type = "tuple"
    /\ Len(m.items) = 2
    /\ \A i \in 1..2 : m.items[i].type = "str"

\* C2: for a sentence with a standalone blank token at first position i, any
\* filler and any marker pair (start, end), insert_filler_markers returns the
\* tokens before i, start, the filler, end and the tokens after i, in that
\* order, joined by single spaces; the docstring example gives ExampleResult.
InsertSplicesFillerBetweenMarkers ==
    (pc = "inserted" /\ BlankAt(sentence) > 0 /\ ValidMarkerPair(filler_markers)) =>
        LET toks == Split(sentence)
            i == BlankAt(sentence)
            expected == SubSeq(toks, 1, i - 1)
                            \o <<filler_markers.items[1].items, filler,
                                 filler_markers.items[2].items>>
                            \o SubSeq(toks, i + 1, Len(toks))
        IN  /\ result = Return(Join(<<" ">>, expected))
            /\ (sentence = ExampleSentence /\ filler = ExampleFiller
                    /\ filler_markers = FillerMarkers)
                   => result = Return(ExampleResult)

\* the docstring example has been returned
WitnessExampleSpliced ==
    /\ pc = "inserted"
    /\ sentence = ExampleSentence
    /\ filler = ExampleFiller
    /\ filler_markers = FillerMarkers
    /\ result = Return(ExampleResult)

\* C3: with a blank in the sentence and a marker argument that is not a
\* two-element tuple of strs, insert_filler_markers fails with the
\* invalid-markers error naming the marker value (not the missing-blank error).
InvalidMarkersRaiseInvalidMarkersError ==
    (pc = "inserted" /\ BlankAt(sentence) > 0 /\ ~ValidMarkerPair(filler_markers)) =>
        /\ result.kind = "raise"
        /\ result.fmt = InvalidMarkersFmt
        /\ result.arg = filler_markers

\* C4: for a sentence with no standalone blank token, insert_filler_markers
\* returns nothing and raises the missing-blank error naming the sentence.
NoBlankRaisesMissingBlank ==
    (pc = "inserted" /\ BlankAt(sentence) = 0) =>
        /\ result.kind = "raise"
        /\ result.exc = "ValueError"
        /\ result.fmt = MissingBlankFmt
        /\ result.arg = sentence

\* a blank attached to punctuation has raised the missing-blank error
WitnessAttachedBlankRaises ==
    /\ pc = "inserted"
    /\ sentence = <<"a", " ">> \o Blank \o <<".">>
    /\ ValidMarkerPair(filler_markers)
    /\ result = Raise("ValueError", MissingBlankFmt, sentence)

\* the marker tokens removed from s, the rest joined by single spaces
RemoveMarkers(s, m) ==
    LET keep(t) == t # m.items[1].items /\ t # m.items[2].items
    IN  Join(<<" ">>, SelectSeq(Split(s), keep))

\* the blank substring occurs at exactly one place of s, as a standalone token
OneBlank(s) ==
    /\ BlankAt(s) > 0
    /\ Cardinality({i \in 1..Len(s) : OccursAt(s, i, Blank)}) = 1

\* neither marker is a token of the sentence or of the filler
MarkersFresh(s, f, m) ==
    \A i \in 1..2 :
        /\ \A j \in 1..Len(Split(s)) : Split(s)[j] # m.items[i].items
        /\ \A j \in 1..Len(Split(f)) : Split(f)[j] # m.items[i].items

\* C10 as stated (on sentences and fillers that hold no marker token): the
\* markers removed from the result of insert_filler_markers, the outcome is
\* exactly the sentence with the filler substituted for the blank by
\* str.replace.
RoundTripExact ==
    (pc = "inserted" /\ OneBlank(sentence) /\ ValidMarkerPair(filler_markers)
        /\ MarkersFresh(sentence, filler, filler_markers)) =>
        /\ result.kind = "return"
        /\ RemoveMarkers(result.value, filler_markers)
               = Replace(sentence, Blank, filler)

\* C10 amended: the two sentences have the same whitespace tokens, when
\* neither marker is a token of the sentence or of the filler.
RoundTripUpToWhitespace ==
    (pc = "inserted" /\ OneBlank(sentence) /\ ValidMarkerPair(filler_markers)
        /\ MarkersFresh(sentence, filler, filler_markers)) =>
        /\ result.kind = "return"
        /\ Split(RemoveMarkers(result.value, filler_markers))
               = Split(Replace(sentence, Blank, filler))

\* a round trip that differs from the plain replacement by whitespace alone
WitnessRoundTripWhitespace ==
    /\ pc = "inserted"
    /\ OneBlank(sentence)
    /\ ValidMarkerPair(filler_markers)
    /\ MarkersFresh(sentence, filler, filler_markers)
    /\ result.kind = "return"
    /\ filler = <<"x", " ", "y">>
    /\ RemoveMarkers(result.value, filler_markers) # Replace(sentence, Blank, filler)
    /\ Split(RemoveMarkers(result.value, filler_markers))
           = Split(Replace(sentence, Blank, filler))

-----------------------------------------------------------------------------
(* Properties of retrieve_instances_from_dataset, under SpecBuild. *)

\* the id suffixes of the five instances of a row
IdSuffix == <<<<"_", "1">>, <<"_", "2">>, <<"_", "3">>, <<"_", "4">>, <<"_", "5">>>>

\* the text of a cell, a missing cell read as the empty string
CellText(cell) == IF cell = NaN THEN <<>> ELSE cell.items

\* C1: when retrieve_instances_from_dataset returns for a dataset of n rows,
\* the id list and the text list both have length 5*n, and the ids of the
\* k-th row with id R are R_1 .. R_5, in that order, at positions 5k .. 5k+4
\* (0-based), whatever use_context is.
FiveInstancesPerRow ==
    pc = "retrieved" =>
        LET n == Len(instances_df)
            out_ids == result.value[1]
            out_texts == result.value[2]
        IN  /\ result.kind = "return"
            /\ Len(out_ids) = 5 * n
            /\ Len(out_texts) = 5 * n
            /\ \A k \in 1..n : \A j \in 1..5 :
                   out_ids[5 * (k - 1) + j] = CellText(instances_df[k].Id) \o IdSuffix[j]

\* the builder has returned for two rows, with and without context
WitnessTwoRowsBuilt ==
    /\ pc = "retrieved"
    /\ Len(instances_df) = 2
    /\ instances_df[1].Id # instances_df[2].Id
    /\ Len(result.value[1]) = 10

\* the sentence text of row k and filler j (the value of lines 27-36)
FilledSentence(k, j) ==
    SentWithFiller(fillna(instances_df)[k], j, filler_markers).value

\* the context segments of row k and filler j: title, section header, previous
\* context, filled sentence and, when it is not empty, follow-up context
Segments(k, j) ==
    LET row == instances_df[k]
        first == <<CellText(row.Article_title), CellText(row.Section_header),
                   CellText(row.Previous_context), FilledSentence(k, j)>>
    IN  IF CellText(row.Follow_up_context) = <<>>
        THEN first
        ELSE Append(first, CellText(row.Follow_up_context))

\* C8 as stated: with use_context the text is the segments joined by
\* newlines; without it the text is the filled sentence alone.
ContextJoinedWithNewlines ==
    pc = "retrieved" =>
        \A k \in 1..Len(instances_df) : \A j \in 1..5 :
            result.value[2][5 * (k - 1) + j] =
                IF use_context THEN Join(<<NL>>, Segments(k, j))
                ELSE FilledSentence(k, j)

\* the separators of the two format strings: after the title " \n ", after
\* every other segment " \n"
RECURSIVE JoinContext(_)
JoinContext(segs) ==
    IF Len(segs) = 1 THEN segs[1]
    ELSE JoinContext(SubSeq(segs, 1, Len(segs) - 1))
             \o (IF Len(segs) = 2 THEN <<" ", NL, " ">> ELSE <<" ", NL>>)
             \o segs[Len(segs)]

\* C8 amended: with use_context the text is the segments in that order,
\* separated by " \n " after the title and by " \n" after every other
\* segment; an empty or missing follow-up context adds no segment and a
\* non-empty one is the last line; without use_context the text is the filled
\* sentence alone.
ContextJoinedWithSpacedNewlines ==
    pc = "retrieved" =>
        \A k \in 1..Len(instances_df) : \A j \in 1..5 :
            result.value[2][5 * (k - 1) + j] =
                IF use_context THEN JoinContext(Segments(k, j))
                ELSE FilledSentence(k, j)

\* texts were built with context for a row whose follow-up context is missing,
\* one whose follow-up context is empty and one that has a follow-up context
WitnessContextBuilt ==
    /\ pc = "retrieved"
    /\ use_context
    /\ Len(instances_df) = 2
    /\ instances_df[1].Follow_up_context \in {NaN, Cell(<<>>)}
    /\ instances_df[2].Follow_up_context = Cell(<<"F">>)
    /\ result.value[2][1] = <<"T", " ", NL, " ", "H", " ", NL, "P", " ", NL>>
                                \o <<"a", " ", "v", " ", ".">>
    /\ result.value[2][6] = <<"T", " ", NL, " ", "H", " ", NL, "P", " ", NL>>
                                \o <<"a", " ", "v", " ", ".", " ", NL, "F">>

\* C9: with use_context, no instance text returned by
\* retrieve_instances_from_dataset contains the placeholder "(...)".
NoPlaceholderInContext ==
    (pc = "retrieved" /\ use_context) =>
        \A i \in 1..Len(result.value[2]) : ~Contains(result.value[2][i], Ellipsis)

-----------------------------------------------------------------------------
(* Properties of merge_data, under Spec. *)

ValidLabels == {"IMPLAUSIBLE", "NEUTRAL", "PLAUSIBLE"}

\* the id of the i-th instance of the instances file, in builder order
ExpectedId(i) ==
    CellText(instances_df[((i - 1) \div 5) + 1].Id) \o IdSuffix[((i - 1) % 5) + 1]

InstanceCount == 5 * Len(instances_df)

\* the labels file has a line for id
HasLabel(id) == \E i \in 1..Len(labels_df) : labels_df[i].Id = id

\* the label the labels file records for id: that of its last line
RecordedLabel(id) ==
    LET lines == {i \in 1..Len(labels_df) : labels_df[i].Id = id}
        last == CHOOSE i \in lines : \A j \in lines : j <= i
    IN  labels_df[last].Label

HasInvalidLabel(i) ==
    HasLabel(ExpectedId(i)) /\ RecordedLabel(ExpectedId(i)) \notin ValidLabels

HasNoLabel(i) == ~HasLabel(ExpectedId(i))

\* the first instance, in builder order, without a valid label; 0 when every
\* instance has one
FirstOffender ==
    LET bad == {i \in 1..InstanceCount : HasNoLabel(i) \/ HasInvalidLabel(i)}
    IN  IF bad = {} THEN 0 ELSE CHOOSE i \in bad : \A j \in bad : i <= j

OrdinalCode(label) ==
    CASE label = "IMPLAUSIBLE" -> 0
      [] label = "NEUTRAL" -> 1
      [] label = "PLAUSIBLE" -> 2

\* merge_data has returned or raised
Finished == pc \in {"merged", "raised"}

\* retrieve_instances_from_dataset has returned to merge_data
BuilderReturned == zip_index > 0

InvalidLabelAlwaysReported ==
    (Finished /\ BuilderReturned /\ \E i \in 1..InstanceCount : HasInvalidLabel(i)) =>
        /\ pc = "raised"
        /\ result.exc = "ValueError"
        /\ result.fmt = InvalidLabelFmt
        /\ \E i \in 1..InstanceCount :
               HasInvalidLabel(i) /\ result.arg = RecordedLabel(ExpectedId(i))

\* C6 amended: an invalid label leaves merge_data without a table; the error
\* is the invalid-label error naming the label when the first instance
\* without a valid label has an invalid one, however many valid ones precede.
FirstInvalidLabelReported ==
    /\ (Finished /\ \E i \in 1..InstanceCount : HasInvalidLabel(i)) => pc = "raised"
    /\ (Finished /\ BuilderReturned /\ FirstOffender > 0
            /\ HasInvalidLabel(FirstOffender)) =>
           /\ pc = "raised"
           /\ result.kind = "raise"
           /\ result.exc = "ValueError"
           /\ result.fmt = InvalidLabelFmt
           /\ result.arg = RecordedLabel(ExpectedId(FirstOffender))
           /\ Len(merged_df_dict.label) = FirstOffender - 1

\* the invalid-label error was raised after instances with valid labels
WitnessInvalidAfterValid ==
    /\ pc = "raised"
    /\ result.exc = "ValueError"
    /\ result.fmt = InvalidLabelFmt
    /\ result.arg = "MAYBE"
    /\ Len(merged_df_dict.label) >= 2

\* C7 as stated: if an instance id produced by the builder is absent from
\* the labels file, merge_data fails with the missing-label error at the
\* lookup of such an id and returns no table.
MissingLabelAlwaysReported ==
    (Finished /\ BuilderReturned /\ \E i \in 1..InstanceCount : HasNoLabel(i)) =>
        /\ pc = "raised"
        /\ result.exc = "KeyError"
        /\ \E i \in 1..InstanceCount : HasNoLabel(i) /\ result.arg = ExpectedId(i)

\* C7 amended: an absent id leaves merge_data without a table; the error is
\* the missing-label error at the lookup of the id when the first instance
\* without a valid label is one whose id is absent.
FirstMissingLabelReported ==
    /\ (Finished /\ \E i \in 1..InstanceCount : HasNoLabel(i)) => pc = "raised"
    /\ (Finished /\ BuilderReturned /\ FirstOffender > 0
            /\ HasNoLabel(FirstOffender)) =>
           /\ pc = "raised"
           /\ result.kind = "raise"
           /\ result.exc = "KeyError"
           /\ result.arg = ExpectedId(FirstOffender)
           /\ zip_index = FirstOffender
           /\ Len(merged_df_dict.label) = FirstOffender - 1

\* the missing-label error was raised after instances with valid labels
WitnessMissingAfterValid ==
    /\ pc = "raised"
    /\ result.exc = "KeyError"
    /\ result.arg = ExpectedId(zip_index)
    /\ Len(merged_df_dict.label) >= 2

-----------------------------------------------------------------------------
(* The choice of text construction in retrieve_instances_from_dataset,     *)
(* under SpecBuild.                                                         *)

\* the outcome of insert_filler_markers on the sentence of row k and its
\* j-th filler, missing cells read as empty strings
MarkedSentence(k, j) ==
    insert_filler_markers(CellText(instances_df[k].Sentence),
                          CellText(instances_df[k].Filler[j]), filler_markers)

\* the sentence of row k with the blank substring replaced by its j-th filler
ReplacedSentence(k, j) ==
    Replace(CellText(instances_df[k].Sentence), Blank,
            CellText(instances_df[k].Filler[j]))

\* the row and the filler index of the i-th instance
RowOf(i) == ((i - 1) \div 5) + 1
FillerOf(i) == ((i - 1) % 5) + 1

\* the builder's texts and its failure follow the choice `marked`: with
\* marked, every text built so far holds the returned value of
\* insert_filler_markers, and a failure is the error of insert_filler_markers
\* on the instance whose id was appended last; without it, every text holds
\* the plain replacement and the builder does not fail
TextsFollow(marked) ==
    /\ \A i \in 1..Len(instances) :
           LET row == fillna(instances_df)[RowOf(i)]
           IN  IF marked
               THEN /\ MarkedSentence(RowOf(i), FillerOf(i)).kind = "return"
                    /\ instances[i] =
                           InstanceText(row, MarkedSentence(RowOf(i), FillerOf(i)).value,
                                        use_context)
               ELSE instances[i] =
                        InstanceText(row, ReplacedSentence(RowOf(i), FillerOf(i)),
                                     use_context)
    /\ pc = "raised" =>
           /\ marked
           /\ Len(ids) = Len(instances) + 1
           /\ MarkedSentence(RowOf(Len(ids)), FillerOf(Len(ids))).kind = "raise"
           /\ result.exc = MarkedSentence(RowOf(Len(ids)), FillerOf(Len(ids))).exc
           /\ result.fmt = MarkedSentence(RowOf(Len(ids)), FillerOf(Len(ids))).fmt
           /\ result.fmt = MissingBlankFmt =>
                  result.arg = CellText(instances_df[RowOf(Len(ids))].Sentence)
    /\ pc = "retrieved" => Len(instances) = 5 * Len(instances_df)

\* C11 as stated: the sentence text is the outcome of insert_filler_markers,
\* errors included, whenever filler_markers is not None, and the plain
\* replacement of the blank substring (a missing filler as the empty string)
\* only when it is None.
MarkedWheneverNotNone == TextsFollow(filler_markers # PyNone)

\* C11 amended: the outcome of insert_filler_markers whenever filler_markers
\* is truthy (neither None nor empty), the plain replacement when it is None
\* or empty.
MarkedWheneverTruthy ==
    TextsFollow(filler_markers # PyNone /\ Len(filler_markers.items) > 0)

\* an empty tuple was passed and the texts are plain replacements, a missing
\* filler replaced as the empty string
WitnessEmptyTuplePlain ==
    /\ pc = "retrieved"
    /\ filler_markers = PyTuple(<<>>)
    /\ ~use_context
    /\ Len(instances_df) = 1
    /\ instances_df[1].Sentence = Cell(SentenceAttached)
    /\ instances_df[1].Filler[2] = NaN
    /\ result.value[2][1] = <<"a", " ", "v", ".">>
    /\ result.value[2][2] = <<"a", " ", ".">>

\* a list of two strs was passed and the error of insert_filler_markers left
\* the builder
WitnessTruthyListRaises ==
    /\ pc = "raised"
    /\ filler_markers = PyList(<<PyStr(StartMarker), PyStr(EndMarker)>>)
    /\ instances_df[1].Sentence = Cell(SentenceFree)
    /\ result.fmt = MissingBlankFmt
    /\ ids = <<CellText(instances_df[1].Id) \o IdSuffix[1]>>

====
